---- MODULE Spec2Model ----
(***************************************************************************)
(* Work Tracker Tool (src/Stream.py): a Streamlit script that keeps work   *)
(* entries in SQLite files of the working directory.  Every user           *)
(* interaction runs the script top to bottom once (twice when the handler  *)
(* calls st.rerun); one action below is one interaction with the whole     *)
(* script run it triggers.                                                 *)
(*                                                                         *)
(* File names are sequences of tokens; the token ".db" stands for the      *)
(* storage extension, so str.endswith('.db') is "the last token is .db".   *)
(* Hours are counted in half hours (the form's step is 0.5).               *)
(* A calendar date is the number of the day.                               *)
(***************************************************************************)
EXTENDS Integers, Sequences, FiniteSets, TLC

VARIABLES
    fs,             \* the working directory: file name -> SQLite database
    databases,      \* st.session_state.databases
    selected_db,    \* value of the "Select Database" selectbox
    confirm_shown,  \* the "Confirm Delete" button was rendered by the last run
    today,          \* the day datetime.now() falls on
    os_name,        \* platform the script runs on (decides os.rename on collision)
    msg,            \* message the handler of the last interaction emitted
    op,             \* the last interaction: its kind and its inputs
    assigned        \* history: ids ever assigned in each file (follows the file)

vars == <<fs, databases, selected_db, confirm_shown, today, os_name, msg, op, assigned>>

\* ---------------------------------------------------------------- bounds
MaxInserts == 2   \* INSERTs over all files of the directory
MaxDay == 1       \* days the clock may advance

\* ---------------------------------------------------------------- inputs
DB == ".db"
NoName == <<>>

\* What the user may type into the "Database Name" / "New Name" text inputs.
NameInputs == { <<>>, <<"a">>, <<"a", DB>>, <<"b">> }

Platforms == {"posix", "nt"}

Form(cn, cl, wv, rq, nt, hw) ==
    [client_name |-> cn, client_location |-> cl, work_of_visit |-> wv,
     requirements |-> rq, note |-> nt, hours_worked |-> hw]

NoForm == Form("", "", "", "", "", 0)

\* Submissions of the entry form: two valid ones, and one per way of being invalid.
Forms == { Form("Acme", "NYC", "Install", "Router", "", 5),
           Form("Bolt", "LA", "Repair", "Cable", "call back", 1),
           Form("", "NYC", "Install", "Router", "", 5),
           Form("Acme", "", "Install", "Router", "", 5),
           Form("Acme", "NYC", "", "Router", "", 5),
           Form("Acme", "NYC", "Install", "", "", 5),
           Form("Acme", "NYC", "Install", "Router", "", 0) }

\* ---------------------------------------------------------------- names
EndsWithDb(n) == Len(n) > 0 /\ n[Len(n)] = DB

Normalize(n) == IF EndsWithDb(n) THEN n ELSE Append(n, DB)

list_databases(f) == { n \in DOMAIN f : EndsWithDb(n) }

\* ---------------------------------------------------------------- SQLite file
\* table: work_entries exists; rows: its rows in rowid order;
\* seq: sqlite_sequence for work_entries (0: no row for it yet).
EmptyFile == [table |-> FALSE, rows |-> <<>>, seq |-> 0]

RECURSIVE MaxId(_)
MaxId(rows) ==
    IF rows = <<>> THEN 0
    ELSE LET m == MaxId(Tail(rows)) IN IF Head(rows).id > m THEN Head(rows).id ELSE m

\* Mutation: DROP TABLE followed by CREATE TABLE instead of CREATE TABLE IF NOT EXISTS.
init_db_recreate(f, db_name) ==
    [x \in DOMAIN f \cup {Normalize(db_name)} |->
        IF x = Normalize(db_name) THEN [table |-> TRUE, rows |-> <<>>, seq |-> 0] ELSE f[x]]

CreateTableIfNotExists(d) == IF d.table THEN d ELSE [d EXCEPT !.table = TRUE]

init_db(f, db_name) ==
    LET n == Normalize(db_name)
        d == IF n \in DOMAIN f THEN f[n] ELSE EmptyFile
    IN  [x \in DOMAIN f \cup {n} |-> IF x = n THEN CreateTableIfNotExists(d) ELSE f[x]]

\* Mutation: INTEGER PRIMARY KEY without AUTOINCREMENT (largest rowid present, plus one).
NextIdWithoutAutoincrement(d) == MaxId(d.rows) + 1

\* INTEGER PRIMARY KEY AUTOINCREMENT: one more than the largest rowid the table ever held.
NextId(d) == (IF d.seq > MaxId(d.rows) THEN d.seq ELSE MaxId(d.rows)) + 1

\* Mutation: client_name and client_location bound to each other's column.
NewEntrySwapped(id, date, form) ==
    [id |-> id, date |-> date,
     client_name |-> form.client_location, client_location |-> form.client_name,
     work_of_visit |-> form.work_of_visit, requirements |-> form.requirements,
     note |-> form.note, hours_worked |-> form.hours_worked]

NewEntry(id, date, form) ==
    [id |-> id, date |-> date,
     client_name |-> form.client_name, client_location |-> form.client_location,
     work_of_visit |-> form.work_of_visit, requirements |-> form.requirements,
     note |-> form.note, hours_worked |-> form.hours_worked]

\* Mutation: the date is written to every row of the table, not only to the new one.
add_entry_restamp(f, db_name, form, date) ==
    LET d == f[db_name]
        id == (IF d.seq > MaxId(d.rows) THEN d.seq ELSE MaxId(d.rows)) + 1
        all == Append(d.rows, [id |-> id, date |-> date,
                 client_name |-> form.client_name, client_location |-> form.client_location,
                 work_of_visit |-> form.work_of_visit, requirements |-> form.requirements,
                 note |-> form.note, hours_worked |-> form.hours_worked])
    IN  [f EXCEPT ![db_name] =
            [d EXCEPT !.rows = [i \in 1..Len(all) |-> [all[i] EXCEPT !.date = date]],
                      !.seq = id]]

add_entry(f, db_name, form, date) ==
    LET d == f[db_name]
        id == NextId(d)
    IN  [f EXCEPT ![db_name] = [d EXCEPT !.rows = Append(d.rows, NewEntry(id, date, form)),
                                         !.seq = id]]

load_data(f, db_name) == f[db_name].rows

\* Mutation: the DELETE is never committed.
clear_data_uncommitted(f, db_name) == f

clear_data(f, db_name) == [f EXCEPT ![db_name].rows = <<>>]

\* ---------------------------------------------------------------- file system
\* os.rename(old, new).  A destination that exists is replaced silently on POSIX
\* and raises FileExistsError on Windows; a missing source raises on both.
os_rename(f, old, new, platform) ==
    IF old \notin DOMAIN f THEN [ok |-> FALSE, fs |-> f]
    ELSE IF new = old THEN [ok |-> TRUE, fs |-> f]
    ELSE IF new \in DOMAIN f /\ platform = "nt" THEN [ok |-> FALSE, fs |-> f]
    ELSE [ok |-> TRUE,
          fs |-> [x \in (DOMAIN f \ {old}) \cup {new} |-> IF x = new THEN f[old] ELSE f[x]]]

rename_database(f, old_name, new_name, platform) ==
    os_rename(f, old_name, Normalize(new_name), platform)

\* os.remove(name)
os_remove(f, name) ==
    IF name \in DOMAIN f
    THEN [ok |-> TRUE, fs |-> [x \in DOMAIN f \ {name} |-> f[x]]]
    ELSE [ok |-> FALSE, fs |-> f]

\* ---------------------------------------------------------------- script sections
\* st.button(...) is True only in the run that the click on that very button triggers.
Button(clicked, label) == clicked = label

\* Lines 131-139: "Confirm Delete" is asked for inside the branch of
\* "Delete Current Database".
DeleteSection(f, sel, clicked) ==
    IF Button(clicked, "Delete Current Database")
    THEN IF Button(clicked, "Confirm Delete") THEN os_remove(f, sel)
         ELSE [ok |-> FALSE, fs |-> f]
    ELSE [ok |-> FALSE, fs |-> f]

\* Mutation: the hours are not looked at.
ValidIgnoringHours(form) ==
    /\ form.client_name # ""
    /\ form.client_location # ""
    /\ form.work_of_visit # ""
    /\ form.requirements # ""

\* Line 169
Valid(form) ==
    /\ form.client_name # ""
    /\ form.client_location # ""
    /\ form.work_of_visit # ""
    /\ form.requirements # ""
    /\ form.hours_worked > 0

\* Lines 142-173: the main panel of one run.
Main(f, sel, submitted, form, date) ==
    IF sel = NoName THEN f
    ELSE LET f1 == init_db(f, sel)
         IN  IF submitted /\ Valid(form) THEN add_entry(f1, sel, form, date) ELSE f1

MainMsg(sel, submitted, form) ==
    IF sel = NoName THEN "Please select or create a database from the sidebar."
    ELSE IF ~submitted THEN "none"
    ELSE IF Valid(form) THEN "Entry added successfully!"
    ELSE "All fields are required!"

\* The selectbox of a run whose option list differs from the last run's is a new
\* widget showing index 0 of os.listdir's (arbitrary) order.
Selectable(dbs) == IF dbs = {} THEN {NoName} ELSE dbs

\* history of ids: a file keeps its history under a new name, a new file starts one
Track(h, f) == [x \in DOMAIN f |-> IF x \in DOMAIN h THEN h[x] ELSE {}]

Ids(rows) == { rows[i].id : i \in 1..Len(rows) }

RECURSIVE Inserts(_)
Inserts(f) ==
    IF DOMAIN f = {} THEN 0
    ELSE LET n == CHOOSE x \in DOMAIN f : TRUE
         IN  f[n].seq + Inserts([x \in DOMAIN f \ {n} |-> f[x]])

Op(kind, name, form) == [kind |-> kind, name |-> name, form |-> form]

\* ---------------------------------------------------------------- initial state
\* Lines 8-10 in an empty working directory.
Init ==
    /\ fs = <<>>
    /\ databases = list_databases(fs)
    /\ selected_db = NoName
    /\ confirm_shown = FALSE
    /\ today = 0
    /\ os_name \in Platforms
    /\ msg = "Please select or create a database from the sidebar."
    /\ op = Op("start", NoName, NoForm)
    /\ assigned = <<>>

\* ---------------------------------------------------------------- interactions
\* A run no button triggered (a text input changed, the page was reloaded).
Rerun ==
    /\ fs' = Main(fs, selected_db, FALSE, NoForm, today)
    /\ msg' = MainMsg(selected_db, FALSE, NoForm)
    /\ op' = Op("rerun", NoName, NoForm)
    /\ confirm_shown' = FALSE
    /\ assigned' = Track(assigned, fs')
    /\ UNCHANGED <<databases, selected_db, today, os_name>>

\* Lines 106-110
SelectDatabase(n) ==
    /\ n \in databases
    /\ selected_db' = n
    /\ fs' = Main(fs, n, FALSE, NoForm, today)
    /\ msg' = MainMsg(n, FALSE, NoForm)
    /\ op' = Op("select", n, NoForm)
    /\ confirm_shown' = FALSE
    /\ assigned' = Track(assigned, fs')
    /\ UNCHANGED <<databases, today, os_name>>

\* Mutation: the lookup is left out.
KnownNever(n, dbs) == FALSE

\* Line 95: the name is looked up in the session's list.
Known(n, dbs) == n \in dbs

\* Lines 90-103, then the rest of the run or the run st.rerun() starts.
CreateDatabase(new_db_name) ==
    /\ op' = Op("create", new_db_name, NoForm)
    /\ confirm_shown' = FALSE
    /\ IF new_db_name # NoName
       THEN LET n == Normalize(new_db_name) IN
            IF ~Known(n, databases)
            THEN LET f1 == init_db(fs, n) IN
                 /\ databases' = list_databases(f1)
                 /\ selected_db' \in Selectable(databases')
                 /\ fs' = Main(f1, selected_db', FALSE, NoForm, today)
                 /\ msg' = "New database created!"
            ELSE /\ msg' = "Database already exists!"
                 /\ fs' = Main(fs, selected_db, FALSE, NoForm, today)
                 /\ UNCHANGED <<databases, selected_db>>
       ELSE /\ msg' = "Please enter a database name!"
            /\ fs' = Main(fs, selected_db, FALSE, NoForm, today)
            /\ UNCHANGED <<databases, selected_db>>
    /\ assigned' = Track(assigned, fs')
    /\ UNCHANGED <<today, os_name>>

\* Lines 113-123, then the rest of the run or the run st.rerun() starts.
RenameDatabase(new_name) ==
    /\ selected_db # NoName
    /\ op' = Op("rename", new_name, NoForm)
    /\ confirm_shown' = FALSE
    /\ IF new_name # NoName
       THEN LET r == rename_database(fs, selected_db, new_name, os_name) IN
            IF r.ok
            THEN /\ databases' = list_databases(r.fs)
                 /\ selected_db' \in Selectable(databases')
                 /\ fs' = Main(r.fs, selected_db', FALSE, NoForm, today)
                 /\ msg' = "Database renamed!"
                 /\ assigned' =
                      Track(rename_database(assigned, selected_db, new_name, os_name).fs, fs')
            ELSE /\ msg' = "Error renaming database"
                 /\ fs' = Main(r.fs, selected_db, FALSE, NoForm, today)
                 /\ assigned' = Track(assigned, fs')
                 /\ UNCHANGED <<databases, selected_db>>
       ELSE /\ msg' = "Please enter a new name!"
            /\ fs' = Main(fs, selected_db, FALSE, NoForm, today)
            /\ assigned' = Track(assigned, fs')
            /\ UNCHANGED <<databases, selected_db>>
    /\ UNCHANGED <<today, os_name>>

\* Lines 126-128, then the main panel.
ClearDatabase ==
    /\ selected_db # NoName
    /\ fs' = Main(clear_data(fs, selected_db), selected_db, FALSE, NoForm, today)
    /\ msg' = "Current database cleared!"
    /\ op' = Op("clear", selected_db, NoForm)
    /\ confirm_shown' = FALSE
    /\ assigned' = Track(assigned, fs')
    /\ UNCHANGED <<databases, selected_db, today, os_name>>

\* Lines 131-139 in the run a click on `clicked` triggers, then the main panel or,
\* after a removal, the run st.rerun() starts.
DeleteRun(clicked) ==
    LET r == DeleteSection(fs, selected_db, clicked) IN
    /\ IF r.ok
       THEN /\ databases' = list_databases(r.fs)
            /\ selected_db' \in Selectable(databases')
            /\ fs' = Main(r.fs, selected_db', FALSE, NoForm, today)
            /\ msg' = "Database deleted successfully!"
            /\ confirm_shown' = FALSE
       ELSE /\ fs' = Main(r.fs, selected_db, FALSE, NoForm, today)
            /\ msg' = "none"
            /\ confirm_shown' = Button(clicked, "Delete Current Database")
            /\ UNCHANGED <<databases, selected_db>>
    /\ assigned' = Track(assigned, fs')
    /\ UNCHANGED <<today, os_name>>

DeleteDatabase ==
    /\ selected_db # NoName
    /\ op' = Op("delete", selected_db, NoForm)
    /\ DeleteRun("Delete Current Database")

ConfirmDelete ==
    /\ selected_db # NoName
    /\ confirm_shown
    /\ op' = Op("confirm", selected_db, NoForm)
    /\ DeleteRun("Confirm Delete")

\* Lines 152-173
Submit(form) ==
    /\ selected_db # NoName
    /\ Valid(form) => Inserts(fs) < MaxInserts
    /\ fs' = Main(fs, selected_db, TRUE, form, today)
    /\ msg' = MainMsg(selected_db, TRUE, form)
    /\ op' = Op("submit", selected_db, form)
    /\ confirm_shown' = FALSE
    /\ assigned' = [x \in DOMAIN fs' |->
                      Track(assigned, fs')[x] \cup
                      (IF x \in DOMAIN fs THEN Ids(fs'[x].rows) \ Ids(fs[x].rows) ELSE {})]
    /\ UNCHANGED <<databases, selected_db, today, os_name>>

\* Midnight passes.
AdvanceDay ==
    /\ today < MaxDay
    /\ today' = today + 1
    /\ op' = Op("midnight", NoName, NoForm)
    /\ UNCHANGED <<fs, databases, selected_db, confirm_shown, os_name, msg, assigned>>

Next ==
    \/ Rerun
    \/ \E n \in databases : SelectDatabase(n)
    \/ \E n \in NameInputs : CreateDatabase(n)
    \/ \E n \in NameInputs : RenameDatabase(n)
    \/ ClearDatabase
    \/ DeleteDatabase
    \/ ConfirmDelete
    \/ \E form \in Forms : Submit(form)
    \/ AdvanceDay

Spec == Init /\ [][Next]_vars

\* ================================================================ properties
Required == {"client_name", "client_location", "work_of_visit", "requirements"}

\* What the specification calls a valid submission.
ValidSubmission(form) ==
    /\ \A k \in Required : form[k] # ""
    /\ form.hours_worked > 0

\* The name with the storage extension appended when absent.
WithExtension(n) == IF n # <<>> /\ n[Len(n)] = DB THEN n ELSE n \o <<DB>>

Carries(e, form) ==
    /\ e.client_name = form.client_name
    /\ e.client_location = form.client_location
    /\ e.work_of_visit = form.work_of_visit
    /\ e.requirements = form.requirements
    /\ e.note = form.note
    /\ e.hours_worked = form.hours_worked

IsPrefix(s, t) == Len(s) <= Len(t) /\ SubSeq(t, 1, Len(s)) = s

Renamed == op'.kind = "rename" /\ msg' = "Database renamed!"

\* In a step, the name the file now called x had before the step.
Origin(x) == IF Renamed /\ x = WithExtension(op'.name) THEN selected_db ELSE x

\* C1: a valid submission on the selected storage unit makes read_all one entry
\* longer; the new entry carries the submitted values and today's date, and the
\* entries stored before are all still there, unchanged; no other unit changes.
C1_ValidSubmitAddsOneEntry ==
    [][(op'.kind = "submit" /\ ValidSubmission(op'.form)) =>
        LET before == load_data(fs, selected_db)
            after == load_data(fs', selected_db)
        IN  /\ Len(after) = Len(before) + 1
            /\ IsPrefix(before, after)
            /\ Carries(after[Len(after)], op'.form)
            /\ after[Len(after)].date = today
            /\ msg' = "Entry added successfully!"
            /\ DOMAIN fs' = DOMAIN fs
            /\ \A x \in DOMAIN fs \ {selected_db} : fs'[x] = fs[x]]_vars

C1_Witness ==
    /\ op.kind = "submit"
    /\ ValidSubmission(op.form)
    /\ selected_db \in DOMAIN fs
    /\ LET rows == load_data(fs, selected_db)
       IN  /\ Len(rows) = 2
           /\ rows[1].date = 0
           /\ rows[2].date = 1
           /\ rows[1].client_name # rows[2].client_name
           /\ Carries(rows[2], op.form)

\* C2: a submission with a required field empty or without positive hours adds
\* no entry to any storage unit, and the validation error is shown.
C2_InvalidSubmitRejected ==
    [][(op'.kind = "submit" /\ ~ValidSubmission(op'.form)) =>
        /\ fs' = fs
        /\ msg' = "All fields are required!"]_vars

C2_Witness ==
    /\ op.kind = "submit"
    /\ op.form.hours_worked = 0
    /\ \A k \in Required : op.form[k] # ""
    /\ msg = "All fields are required!"
    /\ selected_db \in DOMAIN fs
    /\ Len(load_data(fs, selected_db)) = 1

\* C3: renaming the selected storage unit to the name (extension appended when
\* absent) of another existing storage unit is reported as an error and changes
\* nothing: both units stay listed under their names with their entries.
C3_RenameCollisionAborts ==
    [][(/\ op'.kind = "rename"
        /\ op'.name # <<>>
        /\ WithExtension(op'.name) \in DOMAIN fs
        /\ WithExtension(op'.name) # selected_db) =>
        /\ msg' = "Error renaming database"
        /\ fs' = fs
        /\ databases' = databases]_vars

\* C4: Delete Current Database followed by Confirm Delete removes the selected
\* storage unit's file and takes its name off the list of known databases.
C4_ConfirmedDeleteRemoves ==
    [][op'.kind = "confirm" =>
        /\ selected_db \notin DOMAIN fs'
        /\ selected_db \notin databases']_vars

\* C5: creating a storage unit under a name that, with the extension appended
\* when absent, is the name of an existing storage unit signals "already exists"
\* and leaves the files, their entries and the listing as they were.
C5_CreateExistingFails ==
    [][(/\ op'.kind = "create"
        /\ op'.name # <<>>
        /\ WithExtension(op'.name) \in DOMAIN fs) =>
        /\ msg' = "Database already exists!"
        /\ fs' = fs
        /\ databases' = databases
        /\ databases' = DOMAIN fs']_vars

C5_Witness ==
    /\ op.kind = "create"
    /\ op.name = <<"a">>
    /\ msg = "Database already exists!"
    /\ <<"a", DB>> \in DOMAIN fs
    /\ fs[<<"a", DB>>].rows # <<>>

\* C6: after a clear the storage unit reads back empty, is still listed and still
\* has its table; a valid submission on a unit that was cleared (it gave out ids
\* and holds no entry) succeeds and is what read_all then returns.
C6_ClearKeepsUnitUsable ==
    [][/\ op'.kind = "clear" =>
            /\ selected_db \in DOMAIN fs'
            /\ load_data(fs', selected_db) = <<>>
            /\ fs'[selected_db].table
            /\ selected_db \in databases'
            /\ DOMAIN fs' = DOMAIN fs
            /\ \A x \in DOMAIN fs \ {selected_db} : fs'[x] = fs[x]
       /\ (/\ op'.kind = "submit"
           /\ ValidSubmission(op'.form)
           /\ load_data(fs, selected_db) = <<>>
           /\ assigned[selected_db] # {}) =>
            /\ Len(load_data(fs', selected_db)) = 1
            /\ Carries(load_data(fs', selected_db)[1], op'.form)
            /\ msg' = "Entry added successfully!"]_vars

C6_Witness ==
    /\ op.kind = "submit"
    /\ selected_db \in DOMAIN fs
    /\ Len(load_data(fs, selected_db)) = 1
    /\ load_data(fs, selected_db)[1].id = 2
    /\ msg = "Entry added successfully!"

\* C7: init_db is idempotent.  In every reachable state, calling it on any name
\* changes nothing when the file already has its table, and a second call changes
\* nothing after a first; a file never ends up with anything but the one table,
\* and no entry is lost.
C7_InitDbIdempotent ==
    /\ \A x \in DOMAIN fs : fs[x].table
    /\ \A n \in (NameInputs \ {<<>>}) \cup DOMAIN fs :
          /\ init_db(init_db(fs, n), n) = init_db(fs, n)
          /\ WithExtension(n) \in DOMAIN fs => init_db(fs, n) = fs
          /\ \A x \in DOMAIN fs : init_db(fs, n)[x] = fs[x]
    /\ op.kind = "rerun" /\ selected_db # <<>> => init_db(fs, selected_db) = fs

C7_Witness ==
    /\ op.kind = "rerun"
    /\ selected_db \in DOMAIN fs
    /\ Len(load_data(fs, selected_db)) = 2
    /\ Cardinality(DOMAIN fs) = 2

\* Ids are positive and pairwise different in a unit; every date is a day.
UniqueIdsAndDates(f) ==
    \A x \in DOMAIN f :
        LET rows == f[x].rows IN
        /\ \A i, j \in 1..Len(rows) : i # j => rows[i].id # rows[j].id
        /\ \A i \in 1..Len(rows) : rows[i].id \in Nat \ {0} /\ rows[i].date \in 0..MaxDay

\* C8: in every storage unit each entry has a date and an id no other entry of
\* the unit has, and no step changes the id or the date of an entry that is kept.
C8_UniqueIdStableDate ==
    [][/\ UniqueIdsAndDates(fs')
       /\ \A x \in DOMAIN fs' : Origin(x) \in DOMAIN fs =>
             LET old == fs[Origin(x)].rows
                 new == fs'[x].rows
             IN  /\ IsPrefix(old, new) \/ new = <<>>
                 /\ \A i \in 1..Len(old), j \in 1..Len(new) :
                       old[i].id = new[j].id => old[i].date = new[j].date /\ i = j]_vars

C8_Witness ==
    /\ op.kind = "submit"
    /\ today = 1
    /\ selected_db \in DOMAIN fs
    /\ LET rows == load_data(fs, selected_db)
       IN  Len(rows) = 2 /\ rows[1].date = 0 /\ rows[2].date = 1 /\ rows[1].id # rows[2].id

\* C9: an entry is never changed, and it stops being retrievable only through a
\* clear or a deletion of its storage unit; create, rename and submit, on this or
\* any other unit, remove and alter no entry.
C9_EntriesOnlyLostByClearOrDelete ==
    [][\A x \in DOMAIN fs : \A i \in 1..Len(fs[x].rows) :
          \/ \E y \in DOMAIN fs' :
                /\ Origin(y) = x
                /\ i <= Len(fs'[y].rows)
                /\ fs'[y].rows[i] = fs[x].rows[i]
          \/ op'.kind \in {"clear", "confirm"} /\ x = selected_db]_vars

\* C10: in a storage unit ids grow in insertion order and are never assigned
\* twice: an id given out by a submission is larger than every id the unit ever
\* gave out, also when the unit was cleared in between.
C10_IdsNeverReused ==
    [][\A x \in DOMAIN fs' :
          LET new == fs'[x].rows IN
          /\ \A i, j \in 1..Len(new) : i < j => new[i].id < new[j].id
          /\ Ids(new) \subseteq assigned'[x]
          /\ Origin(x) \in DOMAIN fs =>
                \A k \in Ids(new) \ Ids(fs[Origin(x)].rows) :
                    \A old \in assigned[Origin(x)] : old < k]_vars

C10_Witness ==
    /\ op.kind = "submit"
    /\ selected_db \in DOMAIN fs
    /\ Ids(load_data(fs, selected_db)) = {2}
    /\ assigned[selected_db] = {1, 2}

====
